---- MODULE Spec2Model ----
\* Model of app/server.js: an in-memory secret cache that is re-read from a
\* mounted secret file on every request, on a manual reload, and on debounced
\* directory-watch events.
\*
\* JavaScript runs one callback at a time, so at most one handler is in
\* progress (handler, pc).  The file system belongs to the outside world
\* (the CSI driver, an operator): it may change between any two file-system
\* calls of a handler, so every synchronous fs call is a step of its own.
\*
\* A JavaScript string is a sequence of one-character strings; null is the
\* one-element sequence Null, which no string of characters equals.
EXTENDS Integers, Sequences, FiniteSets, TLC

VARIABLES
    testMode,     \* process.env.NODE_ENV === 'test'
    secretPath,   \* SECRET_PATH, as [dir, base]
    dirs,         \* the directories that exist
    file,         \* the entry at SECRET_PATH: [st, content, mtime]
    now,          \* wall clock; every write of the file advances it
    secretCache,  \* the module-level cache object
    watches,      \* number of fs.watch handles installed on the watch directory
    osWatch,      \* the operating system's watch behind them: [live, held]
    timers,       \* number of pending setTimeout callbacks of the watcher
    handler,      \* the callback in progress, "none" when the event loop is idle
    pc,           \* its position
    oldValue,     \* local of the timer callback and of /trigger-reload
    value,        \* local of readSecretFromDisk: the trimmed content read
    stats,        \* local of /secret-info: mtime from its own statSync
    ret,          \* value returned by readSecretFromDisk
    outcome,      \* how the readSecretFromDisk call of this handler ended
    resp,         \* what the handler answered (or logged, for the timer)
    rdGen,        \* history: generation (mtime) of the file at readFileSync
    cacheGen,     \* history: the generations the cache was filled from
    call,         \* history: what the file system did during the current call
    prev,         \* history: the previous readSecretFromDisk call
    setupCalls,   \* history: a setupFileWatcher() call has completed before
    rot           \* history: the rotation the watcher has yet to report

cfg    == <<testMode, secretPath>>
env    == <<dirs, file, now>>
locals == <<oldValue, value, stats, ret, outcome, rdGen>>
vars   == <<testMode, secretPath, dirs, file, now, secretCache, watches, timers,
            handler, pc, oldValue, value, stats, ret, outcome, resp,
            rdGen, cacheGen, call, prev, setupCalls, rot, osWatch>>

----------------------------------------------------------------------------
\* Bounds of the model.

MaxWrites == 1       \* writes of the secret file after the initial state
MaxTimers == 2       \* debounce timers pending at once

----------------------------------------------------------------------------
\* Values.

Null == <<"null">>
NoTime == 0          \* lastUpdated: null / fileModified: undefined

TEST_SECRET_VALUE == <<"T","E","S","T","_","S","E","C","R","E","T","_","V","A","L","U","E">>
SECRET_NOT_AVAILABLE == <<"S","E","C","R","E","T","_","N","O","T","_","A","V","A","I","L","A","B","L","E">>

MntDir == "/mnt/secrets-store"
AltDir == "/srv/alt"
DefaultSecretPath == [dir |-> MntDir, base |-> "my-secret"]

\* SECRET_PATH = process.env.SECRET_PATH || "/mnt/secrets-store/my-secret"
SecretPaths == { DefaultSecretPath,
                 [dir |-> AltDir, base |-> "api-key"] }

Dirs == {MntDir, AltDir}

\* The characters String.prototype.trim strips (WhiteSpace and
\* LineTerminator of ECMAScript) that a string of this notation can hold:
\* U+0009 U+000A U+000B U+000C U+000D U+0020 U+00A0 U+1680 U+FEFF.  The
\* others (U+2000..U+200A, U+2028, U+2029, U+202F, U+205F, U+3000) cannot be
\* written here and are not among the characters of any content below.
Whitespace ==
    {" ", "\n", "\t", "\r", "\f", "", " ", " ", "﻿"}

\* Raw contents the outside world writes into the secret file.
Contents == { <<"a", "\r", "\n">>, <<" ", "b">>, <<"a">> }

RECURSIVE TrimStart(_)
TrimStart(s) ==
    IF s # <<>> /\ Head(s) \in Whitespace THEN TrimStart(Tail(s)) ELSE s

RECURSIVE TrimEnd(_)
TrimEnd(s) ==
    IF s # <<>> /\ s[Len(s)] \in Whitespace
    THEN TrimEnd(SubSeq(s, 1, Len(s) - 1))
    ELSE s

\* variant: only the end is stripped (trimEnd)
Trim_EndOnly(s) == TrimEnd(s)

\* String.prototype.trim
Trim(s) == TrimEnd(TrimStart(s))

NoFile == [st |-> "absent", content |-> <<>>, mtime |-> NoTime]

\* fs.readFileSync(SECRET_PATH) succeeds
Readable(f) == f.st = "readable"
\* fs.existsSync / fs.statSync / fs.realpathSync on SECRET_PATH succeed
Exists(f) == f.st # "absent"

\* fs.watch(watchDir, ...): const watchDir = '/mnt/secrets-store'
WatchDir == MntDir

\* The watch of the operating system.  While it is live it reports changes
\* of the directory.  It ends with the watched directory; the events the
\* operating system then still holds (of changes made before the removal and
\* of the removal itself, any entry name, a name as often as it likes) are
\* delivered afterwards, until the last of them has been.  A directory
\* created later under the same name has no watch.
NoWatch == [live |-> FALSE, held |-> FALSE]

WatchStarted(w) == [live |-> TRUE, held |-> FALSE]

WatchEnded(w) == [live |-> FALSE, held |-> TRUE]

\* an event can reach the callback
Delivers(w) == w.live \/ w.held

\* an event has reached the callback; last: the ended watch holds no more
Delivered(w, last) ==
    IF ~w.live /\ last THEN [w EXCEPT !.held = FALSE] ELSE w

----------------------------------------------------------------------------
\* The code's pure parts.

\* variant: a populated cache keeps its value, only the times are renewed
LoadedCache_KeepsValue(c, v, t, m) ==
    [value |-> IF c.value # Null THEN c.value ELSE v, lastUpdated |-> t,
     fileModified |-> m, watcherActive |-> c.watcherActive]

\* variant: the new cache object starts with watcherActive false
LoadedCache_DropsWatcher(c, v, t, m) ==
    [value |-> v, lastUpdated |-> t, fileModified |-> m,
     watcherActive |-> FALSE]

\* variant: the new value is patched into the old object, whose lastUpdated
\* an earlier call wrote
LoadedCache_PatchesValue(c, v, t, m) ==
    [value |-> v, lastUpdated |-> c.lastUpdated, fileModified |-> m,
     watcherActive |-> c.watcherActive]

\* readSecretFromDisk, success: secretCache = { value, lastUpdated,
\* fileModified, watcherActive: secretCache.watcherActive }
LoadedCache(c, v, t, m) ==
    [value |-> v, lastUpdated |-> t, fileModified |-> m,
     watcherActive |-> c.watcherActive]

\* variant: a populated cache is served without looking at what was read
LoadedValue_Cached(c, v) == IF c.value # Null THEN c.value ELSE v

\* readSecretFromDisk, success: return value
LoadedValue(c, v) == v

\* variant: the catch block stores the sentinel as the cached value
FailedCache_StoresSentinel(c, sentinel) == [c EXCEPT !.value = sentinel]

\* readSecretFromDisk, catch block: the cache object is not touched
FailedCache(c, sentinel) == c

\* variant: the test-mode half of the condition is missing
FallbackValue_IgnoresMode(test, mntExists) ==
    IF ~mntExists THEN TEST_SECRET_VALUE ELSE SECRET_NOT_AVAILABLE

\* readSecretFromDisk, catch block: the value returned
FallbackValue(test, mntExists) ==
    IF test \/ ~mntExists THEN TEST_SECRET_VALUE ELSE SECRET_NOT_AVAILABLE

\* variant: console.error comes before the test of the mode
FallbackLogsError_Always(test, mntExists) == TRUE

\* the error is logged only on the SECRET_NOT_AVAILABLE path
FallbackLogsError(test, mntExists) == ~(test \/ ~mntExists)

\* variant: the ..data entry of the atomic swap is not recognised
Qualifies_OnlyMySecret(filename) == filename = "my-secret"

\* fs.watch callback: filename === 'my-secret' || filename === '..data'
Qualifies(filename) == filename = "my-secret" \/ filename = "..data"

\* oldValue !== newValue
Changed(old, new) == old # new

\* variant: a new event replaces the pending timers (clearTimeout first)
ScheduleTimers_Coalesced(pending, callbacks) == callbacks

\* fs.watch callback: setTimeout(..., 100), once per callback that runs
ScheduleTimers(pending, callbacks) == pending + callbacks

\* fs.watch callback: what it logs ("File change detected")
EventLog(filename) ==
    [status |-> 0, kind |-> "event", filename |-> filename,
     detected |-> Qualifies(filename)]

\* variant: the "already active" early return is missing
SetupSkips_NoActiveCheck(c, test) == test

\* setupFileWatcher: the two early returns that touch no file
SetupSkips(c, test) == c.watcherActive \/ test

\* variant: the existence check of the watched directory is missing
WatchDirMissing_Ignored(watchDir, d) == FALSE

\* setupFileWatcher: !fs.existsSync(watchDir)
WatchDirMissing(watchDir, d) == watchDir \notin d

\* setupFileWatcher: fs.watch installed, secretCache.watcherActive = true
WatchInstalled(c) == [c EXCEPT !.watcherActive = TRUE]

\* variant: the flag is set before fs.watch is called
AfterWatch_FlagFirst(c, threw) == WatchInstalled(c)

\* setupFileWatcher, try/catch: the flag is set only after fs.watch returned
AfterWatch(c, threw) == IF threw THEN c ELSE WatchInstalled(c)

\* setupFileWatcher: "File watcher active" or console.error of the catch
WatchLog(threw) == [status |-> 0, kind |-> "watch", failed |-> threw]

\* variant: the feature flag is a literal, like hotReload
RootResponse_AlwaysWatching(c) ==
    [status |-> 200, kind |-> "root", fileWatching |-> TRUE]

\* GET /: features.fileWatching
RootResponse(c) ==
    [status |-> 200, kind |-> "root", fileWatching |-> c.watcherActive]

\* variant: health depends on the secret being cached
HealthResponse_NeedsSecret ==
    [status |-> IF secretCache.value = Null THEN 503 ELSE 200,
     kind |-> "health", text |-> "OK"]

\* GET /health: res.status(200).send("OK")
HealthResponse == [status |-> 200, kind |-> "health", text |-> "OK"]

\* variant: the handler turns the sentinel into an error status
ConfigResponse_FailsOnSentinel(v, c) ==
    [status |-> IF v = SECRET_NOT_AVAILABLE THEN 500 ELSE 200,
     kind |-> "config", mySecret |-> v,
     lastUpdated |-> c.lastUpdated, fileWatcherActive |-> c.watcherActive]

\* GET /config: getSecret() is evaluated first, the cache fields after it
ConfigResponse(v, c) ==
    [status |-> 200, kind |-> "config", mySecret |-> v,
     lastUpdated |-> c.lastUpdated, fileWatcherActive |-> c.watcherActive]

\* variant: the reduced record always carries the placeholder
InfoFallbackResponse_Placeholder(v) ==
    [status |-> 200, kind |-> "info", exists |-> FALSE,
     value |-> TEST_SECRET_VALUE, mode |-> "fallback"]

\* GET /secret-info, path absent
InfoFallbackResponse(v) ==
    [status |-> 200, kind |-> "info", exists |-> FALSE, value |-> v,
     mode |-> "fallback"]

\* GET /secret-info, path present
InfoResponse(v, m, c) ==
    [status |-> 200, kind |-> "info", exists |-> TRUE, value |-> v,
     fileModified |-> m, cacheLastUpdated |-> c.lastUpdated,
     watcherActive |-> c.watcherActive]

\* GET /secret-info, catch block
InfoError == [status |-> 500, kind |-> "info"]

\* variant: the old value is taken from the cache after the reload
TriggerResponse_OldAfterReload(old, new) ==
    [status |-> 200, kind |-> "trigger", changed |-> Changed(new, new),
     oldValue |-> new, newValue |-> new]

\* GET /trigger-reload: changed, oldValue, newValue
TriggerResponse(old, new) ==
    [status |-> 200, kind |-> "trigger", changed |-> Changed(old, new),
     oldValue |-> old, newValue |-> new]

\* the timer callback answers nobody: what it logs
TimerLog(old, new) ==
    [status |-> 0, kind |-> "timer", rotated |-> Changed(old, new),
     oldValue |-> old, newValue |-> new]

NoResp == [status |-> 0, kind |-> "none"]

----------------------------------------------------------------------------
\* History variables.
\*   call.ok     the file has been readable ever since the call began
\*   call.vals   the trimmed contents the file has held since the call began
\*   call.quiet  the file system has not changed since the call began
\*   call.noDir  the directory of SECRET_PATH has been absent ever since the
\*               handler began
\*   call.statVal  the trimmed content of the file generation whose stats
\*               GET /secret-info took
\*   cacheGen.read  the generation (mtime) the cached value was read from
\*   cacheGen.statVal  the trimmed content of the generation whose mtime is
\*               cached
\*   prev.valid  a readSecretFromDisk call has completed and the file system
\*               has not changed since that call began
\*   prev.ret, prev.fm  what that call returned and the fileModified it left
\*   prev.good   the value returned by the last successful call
\*   call.absent SECRET_PATH did not exist when GET /secret-info checked it
\*   rot         set when the file is rewritten, with nothing else changing
\*               afterwards, from a content the cache holds to a different
\*               one; cleared when a timer callback has run
\*   rot.from    the trimmed content before that write
\*   rot.evt     a qualifying watch event has been delivered since the write

NoCall == [ok |-> FALSE, vals |-> {}, quiet |-> FALSE, noDir |-> FALSE,
           statVal |-> Null, absent |-> FALSE]
NoGen == [read |-> NoTime, statVal |-> Null]
NoRot == [from |-> Null, evt |-> FALSE]

\* the file f, whose content the cache holds, is rewritten to a different c
Rotation(f, c, cache) ==
    IF Readable(f) /\ cache.value = Trim(f.content) /\ Trim(c) # Trim(f.content)
    THEN [from |-> Trim(f.content), evt |-> FALSE]
    ELSE NoRot

\* a handler starts
HandlerStart == [NoCall EXCEPT !.quiet = TRUE,
                               !.noDir = secretPath.dir \notin dirs]
NoPrev == [valid |-> FALSE, ret |-> Null, fm |-> NoTime, good |-> Null]

\* a readSecretFromDisk call starts: the file as it is now
CallStart(c) ==
    [c EXCEPT !.ok = Readable(file),
              !.vals = IF Readable(file) THEN {Trim(file.content)} ELSE {},
              !.quiet = TRUE]

\* the outside world changed the file system to (f2, d2)
Disturb(f2, d2) ==
    /\ call' = IF handler = "none" THEN call
               ELSE [call EXCEPT
                       !.ok = call.ok /\ Readable(f2),
                       !.vals = IF Readable(f2)
                                THEN call.vals \cup {Trim(f2.content)}
                                ELSE call.vals,
                       !.quiet = FALSE,
                       !.noDir = call.noDir /\ secretPath.dir \notin d2]
    /\ prev' = [NoPrev EXCEPT !.good = prev.good]

----------------------------------------------------------------------------
\* Initial state: the module has been loaded, nothing has run.

RelevantDirs == {MntDir, secretPath.dir}

\* the program's own state once the module is loaded
InitProgram ==
    /\ secretCache = [value |-> Null, lastUpdated |-> NoTime,
                      fileModified |-> NoTime, watcherActive |-> FALSE]
    /\ watches = 0
    /\ timers = 0
    /\ handler = "none"
    /\ pc = "idle"
    /\ oldValue = Null
    /\ value = Null
    /\ stats = NoTime
    /\ ret = Null
    /\ outcome = "none"
    /\ resp = NoResp
    /\ rdGen = NoTime
    /\ cacheGen = NoGen
    /\ call = NoCall
    /\ prev = NoPrev
    /\ setupCalls = FALSE
    /\ rot = NoRot
    /\ osWatch = NoWatch

Init ==
    /\ testMode \in BOOLEAN
    /\ secretPath \in SecretPaths
    /\ dirs \in SUBSET RelevantDirs
    /\ now = 1
    /\ file \in {NoFile} \cup
                (IF secretPath.dir \in dirs
                 THEN {[st |-> "readable", content |-> c, mtime |-> 1] :
                          c \in Contents}
                 ELSE {})
    /\ InitProgram

----------------------------------------------------------------------------
\* The outside world.

\* A step of the outside world is taken before a step of the program that
\* looks at the file system; the steps that only answer do not look at it.
Busy == pc \notin {"ret", "done"}

\* the file is created, or replaced by the atomic swap: content and
\* modification time change together
WriteFile(c) ==
    /\ Busy
    /\ secretPath.dir \in dirs
    /\ now < 1 + MaxWrites
    /\ now' = now + 1
    /\ file' = [st |-> "readable", content |-> c, mtime |-> now + 1]
    /\ Disturb(file', dirs)
    /\ rot' = Rotation(file, c, secretCache)
    /\ UNCHANGED <<cfg, dirs, secretCache, watches, timers, handler, pc,
                   locals, resp, cacheGen, setupCalls, osWatch>>

RemoveFile ==
    /\ Busy
    /\ Exists(file)
    /\ file' = NoFile
    /\ Disturb(file', dirs)
    /\ rot' = NoRot
    /\ UNCHANGED <<cfg, dirs, now, secretCache, watches, timers, handler, pc,
                   locals, resp, cacheGen, setupCalls, osWatch>>

\* permissions change: reads fail with EACCES, stat still succeeds
Chmod ==
    /\ Busy
    /\ Exists(file)
    /\ file' = [file EXCEPT !.st = IF @ = "readable" THEN "unreadable" ELSE "readable"]
    /\ Disturb(file', dirs)
    /\ rot' = NoRot
    /\ UNCHANGED <<cfg, dirs, now, secretCache, watches, timers, handler, pc,
                   locals, resp, cacheGen, setupCalls, osWatch>>

RemoveDir(d) ==
    /\ Busy
    /\ d \in dirs
    /\ dirs' = dirs \ {d}
    /\ file' = IF d = secretPath.dir THEN NoFile ELSE file
    /\ osWatch' = IF d = WatchDir /\ osWatch.live
                  THEN WatchEnded(osWatch)
                  ELSE osWatch
    /\ Disturb(file', dirs')
    /\ rot' = NoRot
    /\ UNCHANGED <<cfg, now, secretCache, watches, timers, handler, pc,
                   locals, resp, cacheGen, setupCalls>>

MakeDir(d) ==
    /\ Busy
    /\ d \in RelevantDirs \ dirs
    /\ dirs' = dirs \cup {d}
    /\ Disturb(file, dirs')
    /\ rot' = NoRot
    /\ UNCHANGED <<cfg, file, now, secretCache, watches, timers, handler, pc,
                   locals, resp, cacheGen, setupCalls, osWatch>>

----------------------------------------------------------------------------
\* readSecretFromDisk, one step per file-system call.

\* fs.readFileSync(SECRET_PATH, "utf8").trim()
ReadFile ==
    /\ pc = "read"
    /\ IF Readable(file)
       THEN /\ value' = Trim(file.content)
            /\ rdGen' = file.mtime
            /\ pc' = "stat"
       ELSE /\ pc' = "catch"
            /\ UNCHANGED <<value, rdGen>>
    /\ UNCHANGED <<cfg, env, secretCache, watches, timers, handler, oldValue,
                   stats, ret, outcome, resp, cacheGen, call, prev,
                   setupCalls, rot, osWatch>>

\* fs.statSync(SECRET_PATH), the assignment of secretCache, return value
StatFile ==
    /\ pc = "stat"
    /\ IF Exists(file)
       THEN /\ secretCache' = LoadedCache(secretCache, value, now, file.mtime)
            /\ cacheGen' = [read |-> rdGen, statVal |-> Trim(file.content)]
            /\ ret' = LoadedValue(secretCache, value)
            /\ outcome' = "loaded"
            /\ pc' = "ret"
       ELSE /\ pc' = "catch"
            /\ UNCHANGED <<secretCache, cacheGen, ret, outcome>>
    /\ UNCHANGED <<cfg, env, watches, timers, handler, oldValue, value,
                   stats, resp, rdGen, call, prev, setupCalls, rot, osWatch>>

\* catch (err): NODE_ENV === 'test' || !fs.existsSync('/mnt/secrets-store')
CatchRead ==
    /\ pc = "catch"
    /\ ret' = FallbackValue(testMode, MntDir \in dirs)
    /\ secretCache' = FailedCache(secretCache, ret')
    /\ outcome' = IF FallbackLogsError(testMode, MntDir \in dirs)
                  THEN "error" ELSE "fallback"
    /\ pc' = "ret"
    /\ UNCHANGED <<cfg, env, watches, timers, handler, oldValue, value,
                   stats, resp, rdGen, cacheGen, call, prev, setupCalls, rot,
                   osWatch>>

----------------------------------------------------------------------------
\* Handlers.  Each begins when the event loop is idle.

Idle == pc = "idle"

\* app.get("/")
GetRoot ==
    /\ Idle
    /\ handler' = "root"
    /\ resp' = RootResponse(secretCache)
    /\ pc' = "done"
    /\ UNCHANGED <<cfg, env, secretCache, watches, timers, locals, cacheGen,
                   call, prev, setupCalls, rot, osWatch>>

\* app.get("/health")
GetHealth ==
    /\ Idle
    /\ handler' = "health"
    /\ resp' = HealthResponse
    /\ pc' = "done"
    /\ UNCHANGED <<cfg, env, secretCache, watches, timers, locals, cacheGen,
                   call, prev, setupCalls, rot, osWatch>>

\* app.get("/config"): getSecret()
GetConfig ==
    /\ Idle
    /\ handler' = "config"
    /\ pc' = "read"
    /\ call' = CallStart(HandlerStart)
    /\ UNCHANGED <<cfg, env, secretCache, watches, timers, locals, resp,
                   cacheGen, prev, setupCalls, rot, osWatch>>

\* GET /config answers
RespondConfig ==
    /\ pc = "ret" /\ handler = "config"
    /\ resp' = ConfigResponse(ret, secretCache)
    /\ pc' = "done"
    /\ UNCHANGED <<cfg, env, secretCache, watches, timers, handler, locals,
                   cacheGen, call, prev, setupCalls, rot, osWatch>>

\* app.get("/secret-info")
GetSecretInfo ==
    /\ Idle
    /\ handler' = "info"
    /\ pc' = "exists"
    /\ call' = HandlerStart
    /\ UNCHANGED <<cfg, env, secretCache, watches, timers, locals, resp,
                   cacheGen, prev, setupCalls, rot, osWatch>>

\* if (!fs.existsSync(SECRET_PATH)): the reduced record, after getSecret()
InfoExists ==
    /\ pc = "exists"
    /\ IF Exists(file)
       THEN pc' = "istat" /\ UNCHANGED call
       ELSE pc' = "read" /\ call' = CallStart([call EXCEPT !.absent = TRUE])
    /\ UNCHANGED <<cfg, env, secretCache, watches, timers, handler, locals,
                   resp, cacheGen, prev, setupCalls, rot, osWatch>>

\* const stats = fs.statSync(SECRET_PATH); a throw is answered with 500
InfoStat ==
    /\ pc = "istat"
    /\ IF Exists(file)
       THEN /\ stats' = file.mtime
            /\ call' = [call EXCEPT !.statVal = Trim(file.content)]
            /\ pc' = "realpath"
            /\ UNCHANGED resp
       ELSE /\ resp' = InfoError
            /\ pc' = "done"
            /\ UNCHANGED <<stats, call>>
    /\ UNCHANGED <<cfg, env, secretCache, watches, timers, handler, oldValue,
                   value, ret, outcome, rdGen, cacheGen, prev, setupCalls,
                   rot, osWatch>>

\* const realPath = fs.realpathSync(SECRET_PATH); then getSecret()
InfoRealpath ==
    /\ pc = "realpath"
    /\ IF Exists(file)
       THEN /\ pc' = "read"
            /\ call' = CallStart(call)
            /\ UNCHANGED resp
       ELSE /\ resp' = InfoError
            /\ pc' = "done"
            /\ UNCHANGED call
    /\ UNCHANGED <<cfg, env, secretCache, watches, timers, handler, locals,
                   cacheGen, prev, setupCalls, rot, osWatch>>

\* GET /secret-info answers
RespondInfo ==
    /\ pc = "ret" /\ handler = "info"
    /\ resp' = IF stats = NoTime
               THEN InfoFallbackResponse(ret)
               ELSE InfoResponse(ret, stats, secretCache)
    /\ pc' = "done"
    /\ UNCHANGED <<cfg, env, secretCache, watches, timers, handler, locals,
                   cacheGen, call, prev, setupCalls, rot, osWatch>>

\* app.get("/trigger-reload"): oldValue = secretCache.value
GetTriggerReload ==
    /\ Idle
    /\ handler' = "trigger"
    /\ oldValue' = secretCache.value
    /\ pc' = "read"
    /\ call' = CallStart(HandlerStart)
    /\ UNCHANGED <<cfg, env, secretCache, watches, timers, value, stats, ret,
                   outcome, rdGen, resp, cacheGen, prev, setupCalls, rot,
                   osWatch>>

\* GET /trigger-reload answers
RespondTrigger ==
    /\ pc = "ret" /\ handler = "trigger"
    /\ resp' = TriggerResponse(oldValue, ret)
    /\ pc' = "done"
    /\ UNCHANGED <<cfg, env, secretCache, watches, timers, handler, locals,
                   cacheGen, call, prev, setupCalls, rot, osWatch>>

\* the initial load of the listen callback: readSecretFromDisk()
InitialLoad ==
    /\ Idle
    /\ handler' = "load"
    /\ pc' = "read"
    /\ call' = CallStart(HandlerStart)
    /\ UNCHANGED <<cfg, env, secretCache, watches, timers, locals, resp,
                   cacheGen, prev, setupCalls, rot, osWatch>>

LoadDone ==
    /\ pc = "ret" /\ handler = "load"
    /\ pc' = "done"
    /\ UNCHANGED <<cfg, env, secretCache, watches, timers, handler, locals,
                   resp, cacheGen, call, prev, setupCalls, rot, osWatch>>

----------------------------------------------------------------------------
\* The watcher.

\* entry names the directory watch may report
EventNames == {"my-secret", "..data", "api-key", "secrets-store"}


\* setupFileWatcher() is called
CallSetup ==
    /\ Idle
    /\ handler' = "setup"
    /\ pc' = "setup"
    /\ UNCHANGED <<cfg, env, secretCache, watches, timers, locals, resp,
                   cacheGen, call, prev, setupCalls, rot, osWatch>>

\* the early returns: already active, test environment, directory missing
SetupCheck ==
    /\ pc = "setup"
    /\ IF SetupSkips(secretCache, testMode) \/ WatchDirMissing(WatchDir, dirs)
       THEN pc' = "done"
       ELSE pc' = "watch"
    /\ UNCHANGED <<cfg, env, secretCache, watches, timers, handler, locals,
                   resp, cacheGen, call, prev, setupCalls, rot, osWatch>>

\* try { fs.watch(watchDir, ...); secretCache.watcherActive = true } catch {}
\* fs.watch throws when the directory is gone, and may throw for other
\* reasons (watch limit reached)
SetupWatch ==
    /\ pc = "watch"
    /\ \E throws \in BOOLEAN :
         LET threw == throws \/ WatchDir \notin dirs IN
         /\ watches' = IF threw THEN watches ELSE watches + 1
         /\ secretCache' = AfterWatch(secretCache, threw)
         /\ osWatch' = IF threw THEN osWatch ELSE WatchStarted(osWatch)
         /\ resp' = WatchLog(threw)
    /\ pc' = "done"
    /\ UNCHANGED <<cfg, env, timers, handler, locals, cacheGen, call, prev,
                   setupCalls, rot>>

\* the directory watch reports an event: every installed watch runs its
\* callback, which schedules a timer when the entry name qualifies.  The
\* callback looks at no file: the events of the directory's removal arrive
\* when the directory is gone.
WatchEvent(filename) ==
    /\ Idle
    /\ watches > 0
    /\ Delivers(osWatch)
    /\ \E last \in BOOLEAN : osWatch' = Delivered(osWatch, last)
    /\ handler' = "event"
    /\ resp' = EventLog(filename)
    /\ IF Qualifies(filename)
       THEN /\ timers + watches <= MaxTimers
            /\ timers' = ScheduleTimers(timers, watches)
            /\ rot' = IF rot # NoRot THEN [rot EXCEPT !.evt = TRUE] ELSE rot
       ELSE UNCHANGED <<timers, rot>>
    /\ pc' = "done"
    /\ UNCHANGED <<cfg, env, secretCache, watches, locals, cacheGen, call,
                   prev, setupCalls>>

\* a timer fires: oldValue = secretCache.value; readSecretFromDisk()
TimerFire ==
    /\ Idle
    /\ timers > 0
    /\ timers' = timers - 1
    /\ handler' = "timer"
    /\ oldValue' = secretCache.value
    /\ pc' = "read"
    /\ call' = CallStart(HandlerStart)
    /\ UNCHANGED <<cfg, env, secretCache, watches, value, stats, ret,
                   outcome, rdGen, resp, cacheGen, prev, setupCalls, rot,
                   osWatch>>

\* if (oldValue !== newValue) log the rotation
TimerCompare ==
    /\ pc = "ret" /\ handler = "timer"
    /\ resp' = TimerLog(oldValue, ret)
    /\ pc' = "done"
    /\ UNCHANGED <<cfg, env, secretCache, watches, timers, handler, locals,
                   cacheGen, call, prev, setupCalls, rot, osWatch>>

\* the callback returns to the event loop
Return ==
    /\ pc = "done"
    /\ pc' = "idle"
    /\ handler' = "none"
    /\ oldValue' = Null
    /\ value' = Null
    /\ stats' = NoTime
    /\ ret' = Null
    /\ outcome' = "none"
    /\ rdGen' = NoTime
    /\ resp' = NoResp
    /\ call' = NoCall
    /\ prev' = IF outcome = "none" THEN prev
               ELSE [valid |-> call.quiet, ret |-> ret,
                     fm |-> secretCache.fileModified,
                     good |-> IF outcome = "loaded" THEN ret ELSE prev.good]
    /\ setupCalls' = (setupCalls \/ handler = "setup")
    /\ rot' = IF handler = "timer" THEN NoRot ELSE rot
    /\ UNCHANGED <<cfg, env, secretCache, watches, timers, cacheGen,
                   osWatch>>

----------------------------------------------------------------------------

Next ==
    \/ \E c \in Contents : WriteFile(c)
    \/ RemoveFile
    \/ Chmod
    \/ \E d \in Dirs : RemoveDir(d)
    \/ \E d \in Dirs : MakeDir(d)
    \/ ReadFile
    \/ StatFile
    \/ CatchRead
    \/ GetRoot
    \/ GetHealth
    \/ GetConfig
    \/ RespondConfig
    \/ GetSecretInfo
    \/ InfoExists
    \/ InfoStat
    \/ InfoRealpath
    \/ RespondInfo
    \/ GetTriggerReload
    \/ RespondTrigger
    \/ InitialLoad
    \/ LoadDone
    \/ CallSetup
    \/ SetupCheck
    \/ SetupWatch
    \/ \E n \in EventNames : WatchEvent(n)
    \/ TimerFire
    \/ TimerCompare
    \/ Return

Spec == Init /\ [][Next]_vars

----------------------------------------------------------------------------
\* Claims.

GetSecretHandlers == {"config", "info"}

\* the value a handler handed to its caller
Answered == IF resp.kind = "config" THEN resp.mySecret ELSE resp.value

\* C1: a getSecret() call during which the secret file stays readable returns
\* the trimmed content the file holds during the call (the content it holds
\* now when nothing changed meanwhile), whatever the cache held before,
\* whether or not the watcher is active and whatever timers are pending.
C1_GetSecretIsFresh ==
    (/\ handler \in GetSecretHandlers
     /\ pc \in {"ret", "done"}
     /\ call.ok)
    => /\ ret \in call.vals
       /\ call.quiet => ret = Trim(file.content)
       /\ pc = "done" => Answered = ret

\* C1 witness: the file was rewritten after the watcher was installed, a timer
\* is still pending, and GET /config answers the content now in the file
C1_Witness ==
    /\ pc = "done" /\ handler = "config" /\ call.ok /\ call.quiet
    /\ secretCache.watcherActive /\ timers > 0
    /\ file.mtime > 1
    /\ prev.good # Null /\ prev.good # resp.mySecret
    /\ resp.mySecret = Trim(file.content)

CacheTriple(c) == <<c.value, c.lastUpdated, c.fileModified>>

\* C2: a step of readSecretFromDisk either is the successful end of the call
\* and replaces value, lastUpdated and fileModified together by what the call
\* read, or leaves all three as they were; no other step changes them.
C2_ReloadIsAllOrNothing ==
    [][ IF pc = "stat" /\ pc' = "ret"
        THEN CacheTriple(secretCache') = <<value, now, file.mtime>>
        ELSE CacheTriple(secretCache') = CacheTriple(secretCache) ]_vars

\* C2 witness: a read failed with an error after an earlier one had succeeded,
\* and the cache still holds the earlier value
C2_Witness ==
    /\ pc = "ret" /\ outcome = "error"
    /\ secretCache.value # Null
    /\ secretCache.value = prev.good
    /\ secretCache.fileModified # NoTime

\* C3: the value and the fileModified of the cache always belong to the same
\* generation of the file: the cached value is the trimmed content of the
\* generation whose modification time is cached.
C3_SameGeneration ==
    secretCache.value # Null => secretCache.value = cacheGen.statVal

\* C4: the value, fileModified and cacheLastUpdated of a GET /secret-info
\* answer come from the same generation of the file: the value is the trimmed
\* content of the generation whose modification time is reported, and it is
\* the value the reported cacheLastUpdated was stored with.
C4_InfoSnapshot ==
    (/\ pc = "done" /\ handler = "info"
     /\ resp.status = 200 /\ resp.exists
     /\ outcome = "loaded")
    => /\ resp.value = call.statVal
       /\ resp.value = secretCache.value
       /\ resp.cacheLastUpdated = secretCache.lastUpdated

\* C5: two consecutive readSecretFromDisk() calls with no change of the file
\* system in between return the same value and leave the same fileModified,
\* and a trigger-reload issued after a reload with no change in between
\* reports changed = false, whatever the state of the file system.
C5_IdempotentReload ==
    /\ (pc \in {"ret", "done"} /\ outcome # "none" /\ prev.valid)
       => /\ ret = prev.ret
          /\ secretCache.fileModified = prev.fm
    /\ (pc = "done" /\ handler = "trigger" /\ prev.valid)
       => ~resp.changed

\* C6: once a reload has loaded v1 and the file has then been rewritten to a
\* different v2, a readSecretFromDisk() call during which nothing changes
\* returns v2, and such a trigger-reload reports changed = true with
\* oldValue = v1 and newValue = v2.
C6_RotationDetected ==
    (/\ pc \in {"ret", "done"} /\ outcome # "none"
     /\ call.quiet /\ Readable(file)
     /\ prev.good # Null /\ prev.good # Trim(file.content))
    => /\ ret = Trim(file.content)
       /\ (pc = "done" /\ handler = "trigger")
          => /\ resp.changed
             /\ resp.oldValue = prev.good
             /\ resp.newValue = Trim(file.content)

\* C6 witness: "a" was loaded, the file was rewritten to " b", and
\* trigger-reload reports the change from "a" to "b"
C6_Witness ==
    /\ pc = "done" /\ handler = "trigger" /\ call.quiet
    /\ prev.good = <<"a">>
    /\ file.content = <<" ", "b">> /\ file.mtime > 1
    /\ resp.changed /\ resp.oldValue = <<"a">> /\ resp.newValue = <<"b">>

\* C7: whenever the directory that holds the configured secret path is
\* absent, getSecret() returns "TEST_SECRET_VALUE" and GET /secret-info
\* reports exists = false, for every configured path and in every mode.
C7_FallbackConsistency ==
    (pc = "done" /\ call.noDir)
    => /\ handler = "config" => resp.mySecret = TEST_SECRET_VALUE
       /\ handler = "info" => /\ resp.status = 200
                              /\ ~resp.exists
                              /\ resp.value = TEST_SECRET_VALUE

ReadFailed == outcome \in {"fallback", "error"}

\* C8: in test mode every read failure resolves to the placeholder: the
\* mySecret of GET /config and the value of GET /secret-info are
\* "TEST_SECRET_VALUE" whenever the read failed, no error is logged, and
\* "SECRET_NOT_AVAILABLE" is never returned, whatever directories exist.
C8_TestModePlaceholder ==
    testMode
    => /\ ret # SECRET_NOT_AVAILABLE
       /\ outcome # "error"
       /\ ReadFailed => ret = TEST_SECRET_VALUE
       /\ (pc = "done" /\ handler \in GetSecretHandlers /\ ReadFailed)
          => /\ resp.status = 200
             /\ Answered = TEST_SECRET_VALUE

\* C8 witness: test mode, the secret directory and the file exist but the
\* file cannot be read, and GET /secret-info answers the placeholder
C8_Witness ==
    /\ testMode
    /\ pc = "done" /\ handler = "info" /\ ReadFailed
    /\ MntDir \in dirs /\ Exists(file) /\ ~Readable(file)
    /\ resp.value = TEST_SECRET_VALUE

ReloadHandlers == {"config", "info", "trigger"}

\* C9 as stated: GET /config, GET /secret-info and GET /trigger-reload never
\* answer with an error status.
C9_NeverAnError ==
    (pc = "done" /\ handler \in ReloadHandlers) => resp.status = 200

\* C9 amended: GET /config and GET /trigger-reload always answer 200 with a
\* value; GET /secret-info answers 200 with a value, or 500 when the path it
\* had found was removed before its statSync or realpathSync, in which case
\* readSecretFromDisk was not called.
C9_OnlyInfoMayFail ==
    (pc = "done" /\ handler \in ReloadHandlers)
    => \/ /\ resp.status = 200
          /\ outcome # "none"
          /\ (IF handler = "trigger" THEN resp.newValue ELSE Answered) = ret
       \/ /\ handler = "info"
          /\ resp = InfoError
          /\ outcome = "none"
          /\ ~Exists(file) /\ ~call.quiet

\* C9 witness: GET /secret-info answered 500 after the file was removed
\* under it
C9_Witness ==
    /\ pc = "done" /\ handler = "info"
    /\ resp.status = 500
    /\ ~Exists(file) /\ ~call.quiet

\* C10 as stated: after two or more setupFileWatcher() calls watcherActive is
\* true and at most one watch is installed.
C10_ActiveAfterTwoCalls ==
    (pc = "done" /\ handler = "setup" /\ setupCalls)
    => /\ secretCache.watcherActive
       /\ watches <= 1

\* C10 amended: at most one watch is ever installed; once a call has
\* installed it, every later step (a further setupFileWatcher() call
\* included) leaves watcherActive true and the one watch in place; and an
\* event schedules at most one timer, a qualifying one exactly one.
C10_WatcherIdempotent ==
    [][ /\ watches' <= 1
        /\ secretCache'.watcherActive => watches' = 1
        /\ secretCache.watcherActive
           => secretCache'.watcherActive /\ watches' = watches
        /\ timers' > timers => timers' = timers + 1 ]_vars

\* C10 witness: a second setupFileWatcher() call has returned with the watch
\* of the first still the only one, and one event has scheduled one timer
C10_Witness ==
    /\ pc = "done" /\ handler = "setup" /\ setupCalls
    /\ secretCache.watcherActive /\ watches = 1
    /\ timers = 1

\* ---------------------------------------------------------------------
\* C11  Event filter: for every configured secret path, a watch event
\* schedules a debounced reload if and only if the entry name it reports is
\* the base filename of the configured secret path or "..data"; any other
\* event schedules nothing, emits nothing and leaves the cache unchanged.
\* (Violated: the filter compares against the literal 'my-secret'.)
EventStep == handler = "none" /\ handler' = "event"

C11_EventFilter ==
    [][EventStep =>
         /\ (timers' > timers
               <=> resp'.filename \in {secretPath.base, "..data"})
         /\ resp'.detected = (timers' > timers)
         /\ secretCache' = secretCache]_vars

\* ---------------------------------------------------------------------
\* C12  Debounce correctness: when a qualifying event is delivered and the
\* write completes after the event but before the timer fires, the timer's
\* reload reads the final value; the cache never holds a partially written
\* value.  The file is replaced atomically (the ..data swap), so what a
\* read sees is the whole content of one generation.
WholeValues == {Trim(c) : c \in Contents}

TimerDone == pc = "done" /\ handler = "timer"

C12_DebounceReadsFinal ==
    /\ (TimerDone /\ call.quiet /\ Readable(file)) =>
           /\ resp.newValue = Trim(file.content)
           /\ secretCache.value = Trim(file.content)
    /\ secretCache.value \in WholeValues \cup {Null}

\* the pending timer was scheduled before the write that changed the content
C12_Witness ==
    /\ TimerDone /\ call.quiet /\ Readable(file)
    /\ rot # NoRot /\ ~rot.evt
    /\ resp.oldValue = rot.from
    /\ resp.newValue = Trim(file.content)

\* ---------------------------------------------------------------------
\* GET /secret-info has answered, having found SECRET_PATH absent
InfoAbsentDone == pc = "done" /\ handler = "info" /\ call.absent

\* C13 as stated: whenever the secret path does not exist at the time of a
\* GET /secret-info call, the answer is the reduced record with exists=false
\* whose value is "TEST_SECRET_VALUE", in every mode and whether or not the
\* secret directory exists.
C13_AbsentIsPlaceholder ==
    InfoAbsentDone => resp = InfoFallbackResponse(TEST_SECRET_VALUE)

\* C13 amended: the answer is the reduced record (status 200, exists=false,
\* mode "fallback") whose value is what getSecret() returned; with the path
\* still absent when it is read that is "TEST_SECRET_VALUE" in test mode or
\* without /mnt/secrets-store, and "SECRET_NOT_AVAILABLE" otherwise.
C13_AbsentIsFallbackRecord ==
    InfoAbsentDone =>
        /\ resp.status = 200 /\ resp.exists = FALSE /\ resp.mode = "fallback"
        /\ resp.value = ret
        /\ call.quiet =>
              resp.value = IF testMode \/ MntDir \notin dirs
                           THEN TEST_SECRET_VALUE
                           ELSE SECRET_NOT_AVAILABLE

C13_Witness ==
    /\ InfoAbsentDone /\ call.quiet
    /\ ~testMode /\ MntDir \in dirs
    /\ resp.exists = FALSE /\ resp.value = SECRET_NOT_AVAILABLE

\* ---------------------------------------------------------------------
\* C14  On a read failure readSecretFromDisk() returns the placeholder
\* "TEST_SECRET_VALUE" exactly when the process runs in test mode or the
\* secret root directory /mnt/secrets-store does not exist, and returns the
\* sentinel "SECRET_NOT_AVAILABLE" and logs an error in every other failure
\* case; the placeholder case logs no error.
C14_FallbackSplit ==
    (pc = "ret" /\ ReadFailed) =>
        /\ ret = TEST_SECRET_VALUE <=> (testMode \/ MntDir \notin dirs)
        /\ ret # TEST_SECRET_VALUE =>
              ret = SECRET_NOT_AVAILABLE /\ outcome = "error"
        /\ ret = TEST_SECRET_VALUE => outcome = "fallback"

\* outside test mode, no backend at all: placeholder, nothing logged
C14_Witness ==
    /\ pc = "ret" /\ ReadFailed
    /\ ~testMode /\ MntDir \notin dirs
    /\ ret = TEST_SECRET_VALUE /\ outcome = "fallback"

\* ---------------------------------------------------------------------
\* C15  setupFileWatcher() is a no-op when the process is in test mode or
\* when the watched directory does not exist: it returns with no watch
\* installed and the cache as it was; in test mode watcherActive is false in
\* every reachable state.
SetupDecides == pc = "setup" /\ pc' # "setup"

C15_SetupNoOp ==
    /\ [](testMode => ~secretCache.watcherActive /\ watches = 0)
    /\ [][(SetupDecides /\ (testMode \/ WatchDir \notin dirs)) =>
             /\ pc' = "done"
             /\ secretCache' = secretCache
             /\ watches' = watches
             /\ timers' = timers]_vars

\* a second call in test mode has returned as well
C15_Witness ==
    /\ pc = "done" /\ handler = "setup" /\ setupCalls
    /\ testMode
    /\ ~secretCache.watcherActive /\ watches = 0

----------------------------------------------------------------------------
\* Trimming, checked on its own: the secret file holds any text of at most
\* MaxLen characters, or the documented example, and GET /config reads it.

MaxLen == 3

TrimAlphabet == {"a", "b", " ", "\n", "\r"}

RECURSIVE Texts(_)
Texts(n) ==
    IF n = 0 THEN {<<>>}
    ELSE Texts(n - 1) \cup
         {Append(t, ch) : t \in {u \in Texts(n - 1) : Len(u) = n - 1},
                          ch \in TrimAlphabet}

ExampleContent == <<"a", "b", "c", "1", "2", "3", "\n">>

InitTrim ==
    /\ testMode = FALSE
    /\ secretPath = DefaultSecretPath
    /\ dirs = {MntDir}
    /\ now = 1
    /\ file \in {[st |-> "readable", content |-> c, mtime |-> 1] :
                    c \in Texts(MaxLen) \cup {ExampleContent}}
    /\ InitProgram

NextTrim ==
    \/ GetConfig
    \/ ReadFile
    \/ StatFile
    \/ RespondConfig
    \/ Return

SpecTrim == InitTrim /\ [][NextTrim]_vars

\* t is c without its leading and trailing whitespace
IsTrimOf(t, c) ==
    \E i, j \in 0..Len(c) :
        /\ i + j <= Len(c)
        /\ t = SubSeq(c, i + 1, Len(c) - j)
        /\ \A k \in 1..i : c[k] \in Whitespace
        /\ \A k \in (Len(c) - j + 1)..Len(c) : c[k] \in Whitespace
        /\ t # <<>> => t[1] \notin Whitespace /\ t[Len(t)] \notin Whitespace

\* C16  The value returned by getSecret() for a readable file, and the value
\* stored in the cache, is the file content with its surrounding whitespace
\* removed ("abc123\n" yields "abc123"); the content is otherwise unchanged.
C16_TrimmedContent ==
    (pc = "done" /\ handler = "config") =>
        /\ outcome = "loaded"
        /\ IsTrimOf(resp.mySecret, file.content)
        /\ secretCache.value = resp.mySecret

C16_Witness ==
    /\ pc = "done" /\ handler = "config"
    /\ file.content = ExampleContent
    /\ resp.mySecret = <<"a", "b", "c", "1", "2", "3">>
    /\ secretCache.value = resp.mySecret

\* ---------------------------------------------------------------------
\* C17  When a debounce timer fires, a rotation notification is emitted
\* exactly when the previously cached value differs from the value of the
\* new read; in particular none is emitted when the secret file has not
\* changed since the previous reload, including when both reads resolve to
\* the placeholder or to the sentinel.  (Violated in the failing case: a
\* failed read leaves the cache as it was, so the comparison is against a
\* value the previous reload did not return.)
C17_NotifiesIffChanged ==
    TimerDone =>
        /\ resp.rotated <=> (resp.oldValue # resp.newValue)
        /\ prev.valid => ~resp.rotated

\* ---------------------------------------------------------------------
\* C18  With the watcher active, when the content changes from v1 to v2 and
\* a qualifying event is delivered, the debounced reload emits a rotation
\* notification with old = v1 and new = v2, for every interleaving of
\* GET /config, GET /secret-info and GET /trigger-reload between the change
\* and the firing.  (Violated: such a request loads v2 into the cache, and
\* the timer then compares v2 with v2.)
C18_RotationNotified ==
    (TimerDone /\ call.quiet /\ rot # NoRot /\ rot.evt) =>
        /\ resp.rotated
        /\ resp.oldValue = rot.from
        /\ resp.newValue = Trim(file.content)

----------------------------------------------------------------------------
\* The watcher on its own: the server starts with the secret file in place,
\* the secret is rotated, and nobody makes a request.  A started callback
\* runs to its end (Node runs it synchronously), and a pending timer fires.

InitLive ==
    /\ testMode = FALSE
    /\ secretPath = DefaultSecretPath
    /\ dirs = {MntDir}
    /\ now = 1
    /\ file \in {[st |-> "readable", content |-> c, mtime |-> 1] :
                    c \in Contents}
    /\ InitProgram

\* the steps that continue a callback already running
Continue ==
    \/ ReadFile
    \/ StatFile
    \/ TimerCompare
    \/ LoadDone
    \/ SetupCheck
    \/ SetupWatch
    \/ Return

NextLive ==
    \/ \E c \in Contents : WriteFile(c)
    \/ InitialLoad
    \/ CallSetup
    \/ \E n \in EventNames : WatchEvent(n)
    \/ TimerFire
    \/ Continue

SpecLive ==
    /\ InitLive
    /\ [][NextLive]_vars
    /\ WF_vars(Continue)
    /\ SF_vars(TimerFire)

\* the watch has reported my-secret or ..data while the file holds c
EventDelivered(c) ==
    /\ pc = "done" /\ handler = "event"
    /\ resp.filename \in {"my-secret", "..data"}
    /\ Trim(file.content) = c

\* C19  Liveness: with the watcher active and the file readable, after the
\* file is rotated to a new content and a qualifying event for the rotation
\* is delivered, the cached value eventually equals the new content (unless
\* the file is rotated again first), with the timers firing and without any
\* request being made.
C19_EventuallyReloaded ==
    \A c \in WholeValues :
        EventDelivered(c) ~> (secretCache.value = c \/ Trim(file.content) # c)

\* the timer of a rotation's event has loaded the new content
C19_Witness ==
    /\ TimerDone /\ rot # NoRot /\ rot.evt
    /\ resp.oldValue = rot.from
    /\ secretCache.value = Trim(file.content)
    /\ secretCache.value # rot.from

\* ---------------------------------------------------------------------
\* a timer callback begins its readSecretFromDisk() call
WatcherReadBegins == handler' = "timer" /\ pc' = "read" /\ pc # "read"

\* C20  Qualifying events are not coalesced: each qualifying event adds one
\* single-shot timer of its own and leaves the pending ones alone; a pending
\* timer goes away only by firing, and each firing makes exactly one
\* readSecretFromDisk() call, so k qualifying events lead to exactly k calls
\* from the watcher.
C20_NoCoalescing ==
    [][/\ (EventStep /\ resp'.filename \in {"my-secret", "..data"}) =>
              timers' = timers + 1
       /\ timers' > timers => EventStep /\ resp'.detected
       /\ timers' < timers => timers' = timers - 1 /\ WatcherReadBegins
       /\ WatcherReadBegins => handler = "none" /\ timers' = timers - 1]_vars

\* a second qualifying event while the timer of the first is pending
C20_Witness ==
    /\ pc = "done" /\ handler = "event" /\ resp.detected
    /\ watches = 1
    /\ timers = 2

\* ---------------------------------------------------------------------
\* C21  The watcher never goes back from Active: once watcherActive is true
\* it is true in every later state, across every readSecretFromDisk() call
\* (which replaces the cache object), every failed read and every later
\* setupFileWatcher() call; so it changes from false to true at most once.
C21_ActiveIsStable ==
    [][secretCache.watcherActive => secretCache'.watcherActive]_vars

\* a timer callback, which only an installed watch schedules, has replaced
\* the cache object
C21_Witness ==
    /\ pc = "ret" /\ handler = "timer" /\ outcome = "loaded"
    /\ secretCache.value = ret
    /\ secretCache.watcherActive

\* ---------------------------------------------------------------------
\* setupFileWatcher() returns from a failed fs.watch
FailedInstall == pc = "watch" /\ pc' = "done" /\ resp'.failed

\* C22  When installing the directory watch fails, setupFileWatcher()
\* returns without throwing, watcherActive stays false and no event callback
\* is registered; a later setupFileWatcher() call (not in test mode, the
\* directory present) attempts the installation again; and getSecret() keeps
\* returning the current file content on every request.
C22_InstallFailureIsHarmless ==
    /\ [][/\ FailedInstall =>
                /\ secretCache' = secretCache
                /\ ~secretCache'.watcherActive
                /\ watches' = 0 /\ timers' = timers
          /\ (SetupDecides /\ ~secretCache.watcherActive /\ ~testMode
                /\ WatchDir \in dirs) => pc' = "watch"]_vars
    /\ []((pc = "done" /\ handler = "config" /\ watches = 0
             /\ call.ok /\ call.quiet) =>
                resp.mySecret = Trim(file.content))

\* fs.watch threw although the directory is there, on a repeated call
C22_Witness ==
    /\ pc = "done" /\ handler = "setup" /\ setupCalls
    /\ resp.kind = "watch" /\ resp.failed
    /\ WatchDir \in dirs
    /\ ~secretCache.watcherActive /\ watches = 0

\* ---------------------------------------------------------------------
\* inside a readSecretFromDisk() call
InCall == pc \in {"read", "stat", "catch"}

\* C23  Writers of the cache are serialized: for every interleaving of timer
\* callbacks, trigger-reload requests and getSecret()/Info requests, the
\* value, lastUpdated and fileModified of the cache were all written by one
\* and the same readSecretFromDisk() call.  While a call runs no other
\* callback starts; the triple changes only in the one assignment of the
\* running call, which writes all three fields from that call's own read,
\* clock and stat; so no state has one field written and another not.
C23_WritersSerialized ==
    /\ [][/\ InCall => handler' = handler
          /\ CacheTriple(secretCache') # CacheTriple(secretCache) =>
                /\ pc = "stat" /\ pc' = "ret"
                /\ secretCache'.value = value
                /\ secretCache'.lastUpdated = now
                /\ secretCache'.fileModified = file.mtime
                /\ ret' = secretCache'.value]_vars
    /\ [](/\ secretCache.value = Null <=> secretCache.lastUpdated = NoTime
          /\ secretCache.value = Null <=> secretCache.fileModified = NoTime)

\* a request has overwritten what an earlier call wrote, a timer pending
C23_Witness ==
    /\ pc = "ret" /\ handler \in {"config", "info", "trigger"}
    /\ outcome = "loaded"
    /\ timers > 0
    /\ prev.good # Null /\ prev.good # ret
    /\ CacheTriple(secretCache) = <<ret, now, file.mtime>>

\* ---------------------------------------------------------------------
\* the value returned by the last successful read, Null when there is none
LastGood == IF outcome = "loaded" THEN ret ELSE prev.good

\* C24  In every reachable state the cached value is the trimmed content of
\* the last successful read or, when no read has ever succeeded, the
\* sentinel "SECRET_NOT_AVAILABLE"; so the oldValue that GET /trigger-reload
\* reports before any successful read is that sentinel.  (Violated: the
\* cache starts as null and a failed read does not store the sentinel.)
C24_GoodOrSentinel ==
    /\ secretCache.value =
          IF LastGood = Null THEN SECRET_NOT_AVAILABLE ELSE LastGood
    /\ (pc = "done" /\ handler = "trigger" /\ prev.good = Null) =>
          resp.oldValue = SECRET_NOT_AVAILABLE

\* ---------------------------------------------------------------------
\* C25  The watcher flag is truthful: in every reachable state watcherActive
\* is true if and only if exactly one directory watch is installed, and the
\* fileWatching of GET /, the fileWatcherActive of GET /config and the
\* watcherActive of GET /secret-info equal that flag at the time of the
\* request.  (Violated: the watch ends with the watched directory and the
\* flag stays true.)
WatchInstalledNow == watches = 1 /\ osWatch.live

C25_FlagIsTruthful ==
    /\ watches <= 1
    /\ secretCache.watcherActive <=> WatchInstalledNow
    /\ (pc = "done" /\ handler = "root") =>
          resp.fileWatching = secretCache.watcherActive
    /\ (pc = "done" /\ handler = "config") =>
          resp.fileWatcherActive = secretCache.watcherActive
    /\ (pc = "done" /\ handler = "info" /\ resp.status = 200 /\ resp.exists) =>
          resp.watcherActive = secretCache.watcherActive

\* ---------------------------------------------------------------------
\* GET / or GET /health is served
PlainStep == handler = "none" /\ handler' \in {"root", "health"}

\* C26  GET / and GET /health answer with status 200 in every reachable
\* state (secret readable, unreadable or absent, watcher active or not,
\* timers pending), GET /health with the body "OK", and neither of them
\* reads the secret file or changes any field of the cache: whenever the
\* event loop is idle both can be served, and serving one is a single step
\* that answers and touches nothing else.
C26_PlainEndpoints ==
    /\ [](Idle => ENABLED GetRoot /\ ENABLED GetHealth)
    /\ [][PlainStep =>
             /\ pc' = "done"
             /\ resp'.status = 200
             /\ handler' = "health" => resp'.text = "OK"
             /\ secretCache' = secretCache
             /\ UNCHANGED <<value, rdGen, ret, outcome, cacheGen, timers,
                            watches>>]_vars

\* GET /health answered with the file gone, the watcher active, a timer
\* pending and nothing cached
C26_Witness ==
    /\ pc = "done" /\ handler = "health"
    /\ resp = [status |-> 200, kind |-> "health", text |-> "OK"]
    /\ ~Exists(file)
    /\ secretCache.watcherActive /\ timers > 0
    /\ secretCache.value = Null

====
